---- MODULE Spec2Model ----
(***************************************************************************)
(* RepliconClient (src/src/client/replicon_client.rs): the connection      *)
(* status, the per-channel lists of received messages and the list of sent *)
(* messages, with one action per public method.                            *)
(*                                                                         *)
(* Vec indices are 0-based in the source and 1-based here: the queue of    *)
(* channel c is received_messages[c + 1].                                  *)
(*                                                                         *)
(* Every buffered message carries two history fields next to its payload:  *)
(*   stamp  1 + the largest stamp held by its container when it was        *)
(*          accepted, so that among messages held together a larger stamp  *)
(*          means a later push;                                            *)
(*   stale  TRUE once the status has entered Connected from a              *)
(*          non-connected status after the message was accepted;           *)
(* and a received message also carries ch, the channel id it was inserted  *)
(* with. No operation reads these fields. A panic ends the run: aborted is *)
(* set and no further call is made.                                        *)
(***************************************************************************)
EXTENDS Naturals, Sequences, FiniteSets

\* Largest channel count given to setup_server_channels and largest channel id used.
MaxChannels == 3
\* Largest client id the backend assigns.
MaxClientId == 1
\* Largest number of messages buffered at once (all queues and the sent list).
MaxMsgs == 2

VARIABLES status, received_messages, sent_messages, aborted, discarded, last

vars == <<status, received_messages, sent_messages, aborted, discarded, last>>

\* RepliconServer, modelled further down.
VARIABLES running, server_channels, peers, server_sent, server_aborted,
          server_last

server_vars ==
    <<running, server_channels, peers, server_sent, server_aborted, server_last>>

\* Option::None of client_id.
None == 0
ClientIds == 1..MaxClientId
\* Bytes payloads: two distinct values, P1 and P2. No operation inspects a payload.
Payloads == {1, 2}
ChannelIds == 0..MaxChannels
ChannelCounts == 0..MaxChannels

Disconnected == [tag |-> "Disconnected", client_id |-> None]
Connecting == [tag |-> "Connecting", client_id |-> None]
Connected(client_id) == [tag |-> "Connected", client_id |-> client_id]
RepliconClientStatus ==
    {Disconnected, Connecting} \cup {Connected(i) : i \in {None} \cup ClientIds}

is_disconnected == status.tag = "Disconnected"
is_connecting_loose == status.tag \in {"Disconnected", "Connecting"}
is_connecting == status.tag = "Connecting"
is_connected_any == TRUE
is_connected == status.tag = "Connected"
id == IF status.tag = "Connected" THEN status.client_id ELSE None

RECURSIVE SumLen(_)
SumLen(qs) == IF qs = <<>> THEN 0 ELSE Len(Head(qs)) + SumLen(Tail(qs))
\* Messages buffered in the client.
Buffered == SumLen(received_messages) + Len(sent_messages)

RECURSIVE MaxStamp(_)
MaxStamp(q) ==
    IF q = <<>> THEN 0
    ELSE LET m == MaxStamp(Tail(q))
         IN IF Head(q).stamp > m THEN Head(q).stamp ELSE m

\* The call that produced the current state: its name, its channel id or
\* channel count argument, what it returned (an Option as a sequence of at
\* most one element), and the status, client id, number of queues and
\* numbers of buffered messages it started from. arg is the status given to
\* set_status, as a sequence of one element; it is empty for the other calls.
Call(op, ch, ret) ==
    [op |-> op, ch |-> ch, ret |-> ret, arg |-> <<>>,
     from |-> status.tag, from_id |-> id, count |-> Len(received_messages),
     queued |-> SumLen(received_messages), sent |-> Len(sent_messages)]

Init ==
    /\ status = Disconnected
    /\ received_messages = <<>>
    /\ sent_messages = <<>>
    /\ aborted = FALSE
    /\ discarded = FALSE
    /\ last = [op |-> "default", ch |-> 0, ret |-> <<>>, arg |-> <<>>,
               from |-> "Disconnected", from_id |-> None, count |-> 0,
               queued |-> 0, sent |-> 0]
    /\ running = FALSE
    /\ server_channels = 0
    /\ peers = <<>>
    /\ server_sent = <<>>
    /\ server_aborted = FALSE
    /\ server_last = [op |-> "default", ret |-> <<>>,
                      was_running |-> FALSE, known |-> FALSE,
                      queued |-> 0, sent |-> 0]

\* Vec::resize(channels_count, Vec::new()): truncates, or extends with empty queues.
ResizeEmpty(qs, n) == [i \in 1..n |-> <<>>]
Resize(qs, n) == [i \in 1..n |-> IF i <= Len(qs) THEN qs[i] ELSE <<>>]

\* A setup that starts from a default client.
setup_server_channels_reset(channels_count) ==
    /\ ~aborted
    /\ received_messages' = ResizeEmpty(received_messages, channels_count)
    /\ status' = Disconnected
    /\ sent_messages' = <<>>
    /\ last' = Call("setup_server_channels", channels_count, <<>>)
    /\ UNCHANGED <<aborted, discarded>>

setup_server_channels(channels_count) ==
    /\ ~aborted
    /\ received_messages' = Resize(received_messages, channels_count)
    /\ last' = Call("setup_server_channels", channels_count, <<>>)
    /\ UNCHANGED <<status, sent_messages, aborted, discarded>>

\* `channel_id as usize`, as an index of received_messages.
SlotFirst(channel_id) == 1
Slot(channel_id) == channel_id + 1
\* received_messages.get_mut(channel_id as usize) is Some.
HasChannel(channel_id) == Slot(channel_id) <= Len(received_messages)

\* Vec::pop: the remaining queue and the popped element as an Option.
PopRest(q) == IF q = <<>> THEN <<>> ELSE SubSeq(q, 1, Len(q) - 1)
PopFront(q) == IF q = <<>> THEN <<>> ELSE <<q[1]>>
PopItem(q) == IF q = <<>> THEN <<>> ELSE <<q[Len(q)]>>

\* What receive returns when it does not panic.
receive_result(channel_id) ==
    IF ~is_connected THEN <<>> ELSE PopItem(received_messages[Slot(channel_id)])

\* A receive that returns None for a channel the client does not have.
receive_lenient(channel_id) ==
    /\ ~aborted
    /\ IF ~is_connected \/ ~HasChannel(channel_id)
       THEN /\ last' = Call("receive", channel_id, <<>>)
            /\ UNCHANGED <<status, received_messages, sent_messages, aborted,
                           discarded>>
       ELSE /\ received_messages' =
                [received_messages EXCEPT ![Slot(channel_id)] = PopRest(@)]
            /\ last' = Call("receive", channel_id,
                            PopItem(received_messages[Slot(channel_id)]))
            /\ UNCHANGED <<status, sent_messages, aborted, discarded>>

receive(channel_id) ==
    /\ ~aborted
    /\ IF ~is_connected
       THEN /\ last' = Call("receive", channel_id, receive_result(channel_id))
            /\ UNCHANGED <<status, received_messages, sent_messages, aborted,
                           discarded>>
       ELSE IF ~HasChannel(channel_id)
       THEN /\ aborted' = TRUE
            /\ last' = Call("receive", channel_id, <<>>)
            /\ UNCHANGED <<status, received_messages, sent_messages, discarded>>
       ELSE /\ received_messages' =
                [received_messages EXCEPT ![Slot(channel_id)] = PopRest(@)]
            /\ last' = Call("receive", channel_id, receive_result(channel_id))
            /\ UNCHANGED <<status, sent_messages, aborted, discarded>>

\* Vec::push
Push(q, e) == Append(q, e)

send(channel_id, message) ==
    /\ ~aborted
    /\ IF ~is_connected
       THEN /\ last' = Call("send", channel_id, <<>>)
            /\ UNCHANGED <<status, received_messages, sent_messages, aborted,
                           discarded>>
       ELSE /\ Buffered < MaxMsgs
            /\ sent_messages' =
                 Push(sent_messages,
                      [ch |-> channel_id, data |-> message, stale |-> FALSE,
                       stamp |-> MaxStamp(sent_messages) + 1])
            /\ last' = Call("send", channel_id, <<>>)
            /\ UNCHANGED <<status, received_messages, aborted, discarded>>

\* The history fields only: the pushes made so far belong to a session that
\* ended before the status entered Connected.
Age(q) == [i \in 1..Len(q) |-> [q[i] EXCEPT !.stale = TRUE]]
AgeAll(qs) == [i \in 1..Len(qs) |-> Age(qs[i])]

\* The state changes from Connected to a status that is not Connected.
LeavesToDisconnected(new_status) ==
    is_connected /\ new_status.tag = "Disconnected"
LeavesOrRenews(new_status) == is_connected /\ new_status # status
LeavesConnected(new_status) == is_connected /\ new_status.tag # "Connected"
EntersConnected(new_status) == ~is_connected /\ new_status.tag = "Connected"

\* for channel_messages in &mut self.received_messages { channel_messages.clear() }
KeepReceived(qs) == qs
ClearReceivedVec(qs) == <<>>
ClearReceived(qs) == [i \in 1..Len(qs) |-> <<>>]
\* self.sent_messages.clear()
KeepSent(q) == q
ClearSent(q) == <<>>

set_status(new_status) ==
    /\ ~aborted
    /\ IF LeavesConnected(new_status)
       THEN /\ received_messages' = ClearReceived(received_messages)
            /\ sent_messages' = ClearSent(sent_messages)
            /\ discarded' = (discarded \/ Buffered > 0)
       ELSE IF EntersConnected(new_status)
       THEN /\ received_messages' = AgeAll(received_messages)
            /\ sent_messages' = Age(sent_messages)
            /\ UNCHANGED discarded
       ELSE UNCHANGED <<received_messages, sent_messages, discarded>>
    /\ status' = new_status
    /\ last' = [Call("set_status", 0, <<>>) EXCEPT !.arg = <<new_status>>]
    /\ UNCHANGED aborted

\* Vec::drain(..): every element, front to back; the Vec is left empty.
DrainedTail(q) == IF q = <<>> THEN <<>> ELSE Tail(q)
Drained(q) == q
KeptAfterDrain(q) == q
AfterDrain(q) == <<>>

\* A drain that takes the received messages as well.
drain_sent_all ==
    /\ ~aborted
    /\ sent_messages' = AfterDrain(sent_messages)
    /\ received_messages' = ClearReceived(received_messages)
    /\ last' = Call("drain_sent", 0, Drained(sent_messages))
    /\ UNCHANGED <<status, aborted, discarded>>

drain_sent ==
    /\ ~aborted
    /\ sent_messages' = AfterDrain(sent_messages)
    /\ last' = Call("drain_sent", 0, Drained(sent_messages))
    /\ UNCHANGED <<status, received_messages, aborted, discarded>>

\* An insert_received that looks the channel up before it checks the status.
insert_received_lookup_first(channel_id, message) ==
    /\ ~aborted
    /\ IF ~HasChannel(channel_id)
       THEN /\ aborted' = TRUE
            /\ last' = Call("insert_received", channel_id, <<>>)
            /\ UNCHANGED <<status, received_messages, sent_messages, discarded>>
       ELSE IF ~is_connected
       THEN /\ last' = Call("insert_received", channel_id, <<>>)
            /\ UNCHANGED <<status, received_messages, sent_messages, aborted,
                           discarded>>
       ELSE /\ Buffered < MaxMsgs
            /\ received_messages' =
                 [received_messages EXCEPT ![Slot(channel_id)] =
                    Push(@, [ch |-> channel_id, data |-> message,
                             stale |-> FALSE, stamp |-> MaxStamp(@) + 1])]
            /\ last' = Call("insert_received", channel_id, <<>>)
            /\ UNCHANGED <<status, sent_messages, aborted, discarded>>

insert_received(channel_id, message) ==
    /\ ~aborted
    /\ IF ~is_connected
       THEN /\ last' = Call("insert_received", channel_id, <<>>)
            /\ UNCHANGED <<status, received_messages, sent_messages, aborted,
                           discarded>>
       ELSE IF ~HasChannel(channel_id)
       THEN /\ aborted' = TRUE
            /\ last' = Call("insert_received", channel_id, <<>>)
            /\ UNCHANGED <<status, received_messages, sent_messages, discarded>>
       ELSE /\ Buffered < MaxMsgs
            /\ received_messages' =
                 [received_messages EXCEPT ![Slot(channel_id)] =
                    Push(@, [ch |-> channel_id, data |-> message,
                             stale |-> FALSE, stamp |-> MaxStamp(@) + 1])]
            /\ last' = Call("insert_received", channel_id, <<>>)
            /\ UNCHANGED <<status, sent_messages, aborted, discarded>>

(***************************************************************************)
(* RepliconServer, the server-side mirror: a running flag, one set of      *)
(* receive queues per registered peer and one list of sent messages for    *)
(* all peers.                                                              *)
(***************************************************************************)
\* Two peers: the client id of the tests and another one.
PeerIds == {1, 7}
\* One payload: the server never inspects a payload either.
ServerPayloads == {1}

RECURSIVE SumPeers(_)
SumPeers(ps) ==
    IF ps = {} THEN 0
    ELSE LET p == CHOOSE x \in ps : TRUE
         IN SumLen(peers[p]) + SumPeers(ps \ {p})
\* Messages buffered in the server.
ServerBuffered == SumPeers(DOMAIN peers) + Len(server_sent)

\* The server call that produced the current state: its name, what it
\* returned, and the running flag, the registration of the peer it names and
\* the numbers of buffered messages it started from.
ServerCall(op, peer, ch, ret) ==
    [op |-> op, ret |-> ret,
     was_running |-> running, known |-> peer \in DOMAIN peers,
     queued |-> SumPeers(DOMAIN peers), sent |-> Len(server_sent)]

\* The channel count every new peer's queue-set is created with, set before
\* any peer is registered.
server_setup_channels(channels_count) ==
    /\ ~server_aborted
    /\ DOMAIN peers = {}
    /\ server_channels' = channels_count
    /\ server_last' = ServerCall("setup_channels", None, channels_count, <<>>)
    /\ UNCHANGED <<running, peers, server_sent, server_aborted>>

\* The session layer registers a peer that connects.
add_peer(peer_id) ==
    /\ ~server_aborted
    /\ peer_id \notin DOMAIN peers
    /\ peers' = [p \in DOMAIN peers \cup {peer_id} |->
                   IF p = peer_id THEN [i \in 1..server_channels |-> <<>>]
                   ELSE peers[p]]
    /\ server_last' = ServerCall("add_peer", peer_id, 0, <<>>)
    /\ UNCHANGED <<running, server_channels, server_sent, server_aborted>>

\* The session layer removes a peer that disconnects.
remove_peer(peer_id) ==
    /\ ~server_aborted
    /\ peer_id \in DOMAIN peers
    /\ peers' = [p \in DOMAIN peers \ {peer_id} |-> peers[p]]
    /\ server_last' = ServerCall("remove_peer", peer_id, 0, <<>>)
    /\ UNCHANGED <<running, server_channels, server_sent, server_aborted>>

\* Peer-scoped calls act only on a running server and a registered peer.
Active(peer_id) == running /\ peer_id \in DOMAIN peers

\* A send that does not look the peer up.
server_send_any_peer(peer_id, channel_id, message) ==
    /\ ~server_aborted
    /\ IF ~running
       THEN /\ server_last' = ServerCall("send", peer_id, channel_id, <<>>)
            /\ UNCHANGED <<running, server_channels, peers, server_sent,
                           server_aborted>>
       ELSE /\ ServerBuffered < MaxMsgs
            /\ server_sent' =
                 Push(server_sent,
                      [peer |-> peer_id, ch |-> channel_id, data |-> message])
            /\ server_last' = ServerCall("send", peer_id, channel_id, <<>>)
            /\ UNCHANGED <<running, server_channels, peers, server_aborted>>

server_send(peer_id, channel_id, message) ==
    /\ ~server_aborted
    /\ IF ~Active(peer_id)
       THEN /\ server_last' = ServerCall("send", peer_id, channel_id, <<>>)
            /\ UNCHANGED <<running, server_channels, peers, server_sent,
                           server_aborted>>
       ELSE /\ ServerBuffered < MaxMsgs
            /\ server_sent' =
                 Push(server_sent,
                      [peer |-> peer_id, ch |-> channel_id, data |-> message])
            /\ server_last' = ServerCall("send", peer_id, channel_id, <<>>)
            /\ UNCHANGED <<running, server_channels, peers, server_aborted>>

server_receive(peer_id, channel_id) ==
    /\ ~server_aborted
    /\ IF ~Active(peer_id)
       THEN /\ server_last' = ServerCall("receive", peer_id, channel_id, <<>>)
            /\ UNCHANGED <<running, server_channels, peers, server_sent,
                           server_aborted>>
       ELSE IF channel_id + 1 > Len(peers[peer_id])
       THEN /\ server_aborted' = TRUE
            /\ server_last' = ServerCall("receive", peer_id, channel_id, <<>>)
            /\ UNCHANGED <<running, server_channels, peers, server_sent>>
       ELSE /\ peers' = [peers EXCEPT ![peer_id][channel_id + 1] = PopRest(@)]
            /\ server_last' =
                 ServerCall("receive", peer_id, channel_id,
                            PopItem(peers[peer_id][channel_id + 1]))
            /\ UNCHANGED <<running, server_channels, server_sent,
                           server_aborted>>

server_insert_received(peer_id, channel_id, message) ==
    /\ ~server_aborted
    /\ IF ~Active(peer_id)
       THEN /\ server_last' =
                 ServerCall("insert_received", peer_id, channel_id, <<>>)
            /\ UNCHANGED <<running, server_channels, peers, server_sent,
                           server_aborted>>
       ELSE IF channel_id + 1 > Len(peers[peer_id])
       THEN /\ server_aborted' = TRUE
            /\ server_last' =
                 ServerCall("insert_received", peer_id, channel_id, <<>>)
            /\ UNCHANGED <<running, server_channels, peers, server_sent>>
       ELSE /\ ServerBuffered < MaxMsgs
            /\ peers' = [peers EXCEPT ![peer_id][channel_id + 1] =
                           Push(@, [peer |-> peer_id, ch |-> channel_id,
                                    data |-> message])]
            /\ server_last' =
                 ServerCall("insert_received", peer_id, channel_id, <<>>)
            /\ UNCHANGED <<running, server_channels, server_sent,
                           server_aborted>>

\* set_running(false): every peer's queues and the sent list are cleared.
StopKeeps(b) == FALSE
StopClears(b) == ~b

set_running(b) ==
    /\ ~server_aborted
    /\ IF StopClears(b)
       THEN /\ peers' = [p \in DOMAIN peers |-> ClearReceived(peers[p])]
            /\ server_sent' = <<>>
       ELSE UNCHANGED <<peers, server_sent>>
    /\ running' = b
    /\ server_last' = ServerCall("set_running", None, 0, <<>>)
    /\ UNCHANGED <<server_channels, server_aborted>>

server_drain_sent ==
    /\ ~server_aborted
    /\ server_sent' = <<>>
    /\ server_last' = ServerCall("drain_sent", None, 0, server_sent)
    /\ UNCHANGED <<running, server_channels, peers, server_aborted>>

all_vars == <<vars, server_vars>>

Next ==
    \/ \E n \in ChannelCounts : setup_server_channels(n) /\ UNCHANGED server_vars
    \/ \E c \in ChannelIds : receive(c) /\ UNCHANGED server_vars
    \/ \E c \in ChannelIds, p \in Payloads : send(c, p) /\ UNCHANGED server_vars
    \/ \E s \in RepliconClientStatus : set_status(s) /\ UNCHANGED server_vars
    \/ drain_sent /\ UNCHANGED server_vars
    \/ \E c \in ChannelIds, p \in Payloads :
          insert_received(c, p) /\ UNCHANGED server_vars

\* The client, with the server left as constructed.
Spec == Init /\ [][Next]_all_vars

ServerNext ==
    \/ \E n \in ChannelCounts : server_setup_channels(n) /\ UNCHANGED vars
    \/ \E q \in PeerIds : add_peer(q) /\ UNCHANGED vars
    \/ \E q \in PeerIds : remove_peer(q) /\ UNCHANGED vars
    \/ \E q \in PeerIds, c \in ChannelIds, p \in ServerPayloads :
          server_send(q, c, p) /\ UNCHANGED vars
    \/ \E q \in PeerIds, c \in ChannelIds : server_receive(q, c) /\ UNCHANGED vars
    \/ \E q \in PeerIds, c \in ChannelIds, p \in ServerPayloads :
          server_insert_received(q, c, p) /\ UNCHANGED vars
    \/ \E b \in BOOLEAN : set_running(b) /\ UNCHANGED vars
    \/ server_drain_sent /\ UNCHANGED vars

\* The server, with the client left as constructed.
ServerSpec == Init /\ [][ServerNext]_all_vars

TypeOK ==
    /\ status \in RepliconClientStatus
    /\ aborted \in BOOLEAN
    /\ discarded \in BOOLEAN
    /\ Len(received_messages) \in ChannelCounts
    /\ Buffered <= MaxMsgs

(***************************************************************************)
(* Claims                                                                  *)
(***************************************************************************)

\* C1. Disconnect discards: right after a set_status call that took the
\* status from Connected to Disconnected or Connecting, drain_sent would
\* yield nothing, every configured queue is empty and receive would return
\* None on every configured channel.
DisconnectDiscards ==
    (last.op = "set_status" /\ last.from = "Connected"
        /\ status.tag # "Connected") =>
       /\ Drained(sent_messages) = <<>>
       /\ \A i \in 1..Len(received_messages) :
            /\ received_messages[i] = <<>>
            /\ receive_result(i - 1) = <<>>

\* Connected -> Connecting with sent and received messages still buffered.
DisconnectDiscardsWitness ==
    /\ last.op = "set_status" /\ last.from = "Connected"
    /\ status.tag = "Connecting"
    /\ last.sent > 0 /\ last.queued > 0
    /\ Len(received_messages) > 1

\* C2. No cross-session leakage: no message returned by receive or yielded
\* by drain_sent was accepted before the most recent transition from a
\* non-connected status into Connected.
NoCrossSessionLeakage ==
    \A i \in 1..Len(last.ret) : ~last.ret[i].stale

\* A message is received in a session that follows one which ended with
\* messages buffered.
NoCrossSessionLeakageWitness ==
    /\ discarded
    /\ status.tag = "Connected"
    /\ last.op = "receive" /\ last.ret # <<>>

\* C3. No delivery while disconnected: a send, insert_received or receive
\* made while the status is not Connected changes neither the sent list nor
\* any receive queue, and returns nothing.
NoDeliveryWhileDisconnected ==
    [][(status.tag # "Connected"
          /\ last'.op \in {"send", "insert_received", "receive"}) =>
         /\ UNCHANGED <<received_messages, sent_messages>>
         /\ last'.ret = <<>>]_vars

\* A send made while Connecting, on a client with channels set up.
NoDeliveryWhileDisconnectedWitness ==
    /\ last.op = "send" /\ last.from = "Connecting"
    /\ Len(received_messages) > 0
    /\ sent_messages = <<>>

\* C4. drain_sent returns the whole sent list in the order of the sends and
\* leaves it empty; a drain_sent that directly follows a drain_sent yields
\* nothing.
DrainReturnsAllInOrder ==
    /\ [](last.op = "drain_sent" =>
            /\ Len(last.ret) = last.sent
            /\ \A i \in 1..Len(last.ret) : last.ret[i].stamp = i
            /\ sent_messages = <<>>)
    /\ [][(last.op = "drain_sent" /\ last'.op = "drain_sent") =>
            last'.ret = <<>>]_vars

\* A drain of two different messages sent on two different channels.
DrainReturnsAllInOrderWitness ==
    /\ last.op = "drain_sent"
    /\ Len(last.ret) = 2
    /\ last.ret[1].data # last.ret[2].data
    /\ last.ret[1].ch # last.ret[2].ch

\* C5. LIFO pop: a receive made while Connected returns None only when the
\* queue of its channel is empty, and otherwise removes one message and
\* returns the one pushed later than every message left in that queue.
LifoPop ==
    (last.op = "receive" /\ last.from = "Connected" /\ ~aborted) =>
       LET q == received_messages[last.ch + 1]
       IN IF last.ret = <<>>
          THEN /\ q = <<>>
               /\ SumLen(received_messages) = last.queued
          ELSE /\ last.ret[1].stamp > MaxStamp(q)
               /\ SumLen(received_messages) + 1 = last.queued

\* P1 then P2 were inserted; the first receive has returned P2 and left P1.
LifoPopWitness ==
    /\ last.op = "receive" /\ last.from = "Connected" /\ ~aborted
    /\ last.ret # <<>>
    /\ last.ret[1].data = 2 /\ last.ret[1].stamp = 2
    /\ Len(received_messages[last.ch + 1]) = 1
    /\ received_messages[last.ch + 1][1].data = 1

\* C6. Channel isolation: insert_received and receive leave the queue of
\* every channel other than the one they address unchanged, and receive
\* returns only a message that was inserted with the channel id it is
\* called with.
ChannelIsolation ==
    /\ [][last'.op \in {"insert_received", "receive"} =>
            \A i \in 1..Len(received_messages) :
               i # last'.ch + 1 => received_messages'[i] = received_messages[i]]_vars
    /\ [](last.op = "receive" =>
            \A i \in 1..Len(last.ret) : last.ret[i].ch = last.ch)

\* receive has returned a message of its channel while another channel
\* still holds one.
ChannelIsolationWitness ==
    /\ last.op = "receive" /\ last.ret # <<>>
    /\ \E i \in 1..Len(received_messages) :
          i # last.ch + 1 /\ received_messages[i] # <<>>

\* C7. With three channels set up and the status Connected, send(2, payload)
\* appends its message to the sent list and send(3, payload) panics without
\* appending.
SendPanicsOutOfRange ==
    (last.op = "send" /\ last.from = "Connected" /\ last.count = 3) =>
       /\ last.ch = 2 =>
            /\ ~aborted
            /\ Len(sent_messages) = last.sent + 1
            /\ sent_messages[Len(sent_messages)].ch = 2
       /\ last.ch = 3 =>
            /\ aborted
            /\ Len(sent_messages) = last.sent

\* C8 as stated: after setup_server_channels(n) there are n queues and every
\* one of them is empty.
SetupLeavesQueuesEmpty ==
    last.op = "setup_server_channels" =>
       /\ Len(received_messages) = last.ch
       /\ \A i \in 1..Len(received_messages) : received_messages[i] = <<>>

\* C8. After setup_server_channels(n) there are n queues; a queue that
\* existed before the call keeps its messages and a queue added by the call
\* is empty.
SetupResizesQueues ==
    [][last'.op = "setup_server_channels" =>
         /\ Len(received_messages') = last'.ch
         /\ \A i \in 1..Len(received_messages') :
              received_messages'[i] =
                 IF i <= Len(received_messages)
                 THEN received_messages[i] ELSE <<>>]_vars

\* The channel count has grown while the first queue held a message.
SetupResizesQueuesWitness ==
    /\ last.op = "setup_server_channels"
    /\ last.count >= 1 /\ last.ch > last.count
    /\ received_messages[1] # <<>>
    /\ received_messages[last.ch] = <<>>

\* C9. While Connected, receive and insert_received with a channel id that
\* is not below the number of queues panic: nothing is returned and no
\* queue changes.
OutOfRangePanics ==
    (last.op \in {"receive", "insert_received"} /\ last.from = "Connected"
        /\ last.ch >= last.count) =>
       /\ aborted
       /\ last.ret = <<>>
       /\ Len(received_messages) = last.count
       /\ SumLen(received_messages) = last.queued

\* receive(n) on a connected client with n > 0 channels that hold a message.
OutOfRangePanicsWitness ==
    /\ aborted /\ last.op = "receive"
    /\ last.count > 0 /\ last.ch = last.count
    /\ last.queued > 0

\* C10. While not Connected, send, receive and insert_received never panic,
\* return nothing and buffer nothing, whatever the channel id.
NotConnectedNeverPanics ==
    (last.op \in {"send", "receive", "insert_received"}
        /\ last.from # "Connected") =>
       /\ ~aborted
       /\ last.ret = <<>>
       /\ SumLen(received_messages) = last.queued
       /\ Len(sent_messages) = last.sent

\* insert_received with an id outside the range on a disconnected client.
NotConnectedNeverPanicsWitness ==
    /\ last.op = "insert_received" /\ last.from = "Disconnected"
    /\ last.count > 0 /\ last.ch >= last.count
    /\ ~aborted

\* C11 as stated: while the status stays Connected, a client id that has
\* been assigned is returned by id() in every later state, whatever is
\* called.
PeerIdSetOnce ==
    [][(status.tag = "Connected" /\ id # None /\ status'.tag = "Connected") =>
         id' = id]_vars

\* C11. While the status stays Connected, a client id that has been assigned
\* is changed by no call other than set_status; set_status with a Connected
\* status makes id() return the client id of that status.
PeerIdKeptByOtherCalls ==
    /\ [][(status.tag = "Connected" /\ id # None
             /\ last'.op # "set_status") => id' = id]_vars
    /\ [][(status.tag = "Connected" /\ id # None
             /\ last'.op = "set_status" /\ status'.tag = "Connected") =>
            id' = last'.arg[1].client_id]_vars

\* A connected client with an id assigned has sent a message and still has
\* that id.
PeerIdKeptByOtherCallsWitness ==
    /\ status.tag = "Connected" /\ id # None
    /\ last.op = "send" /\ last.from_id = id
    /\ sent_messages # <<>>

\* Every queue of every registered peer is empty.
ServerQueuesEmpty ==
    \A p \in DOMAIN peers : \A i \in 1..Len(peers[p]) : peers[p][i] = <<>>

\* C12. Server stop discards: right after set_running(false) the sent list
\* and every queue of every peer are empty, so drain_sent and receive would
\* yield nothing.
ServerStopDiscards ==
    (server_last.op = "set_running" /\ ~running) =>
       /\ server_sent = <<>>
       /\ ServerQueuesEmpty

\* A running server is stopped while it holds sent and received messages.
ServerStopDiscardsWitness ==
    /\ server_last.op = "set_running" /\ ~running
    /\ server_last.was_running
    /\ server_last.sent > 0 /\ server_last.queued > 0

\* C13 as stated: a server send or insert_received made while the server is
\* not running or for a peer that is not registered changes nothing, and
\* drain_sent and receive would yield nothing after it.
ServerInactiveYieldsNothing ==
    (server_last.op \in {"send", "insert_received"}
        /\ ~(server_last.was_running /\ server_last.known)) =>
       /\ Len(server_sent) = server_last.sent
       /\ SumPeers(DOMAIN peers) = server_last.queued
       /\ server_sent = <<>>
       /\ ServerQueuesEmpty

\* C13. A server send or insert_received made while the server is not
\* running or for a peer that is not registered changes nothing; after such
\* a call on a server that is not running, drain_sent and receive would
\* yield nothing.
ServerInactiveChangesNothing ==
    /\ [][(server_last'.op \in {"send", "insert_received"}
             /\ ~(running /\ server_last'.known)) =>
            UNCHANGED <<running, peers, server_sent>>]_all_vars
    /\ []((server_last.op \in {"send", "insert_received"}
             /\ ~server_last.was_running) =>
            (server_sent = <<>> /\ ServerQueuesEmpty))

\* A send for a peer that is not registered, on a running server that holds
\* a sent message of a registered peer.
ServerInactiveChangesNothingWitness ==
    /\ server_last.op = "send"
    /\ server_last.was_running /\ ~server_last.known
    /\ server_sent # <<>>
    /\ DOMAIN peers # {}

\* C14. The client starts Disconnected; after set_status(s) the status is s;
\* exactly one of is_disconnected, is_connecting and is_connected holds; id()
\* returns a client id only in a Connected status that carries it.
StatusAccessors ==
    /\ last.op = "default" => status = Disconnected
    /\ last.op = "set_status" => status = last.arg[1]
    /\ is_disconnected \/ is_connecting \/ is_connected
    /\ ~(is_disconnected /\ is_connecting)
    /\ ~(is_disconnected /\ is_connected)
    /\ ~(is_connecting /\ is_connected)
    /\ id # None => (is_connected /\ status = Connected(id))
    /\ status \in {Disconnected, Connecting, Connected(None)} => id = None

\* Connecting -> Connected with client id 1.
StatusAccessorsWitness ==
    /\ last.op = "set_status" /\ last.from = "Connecting"
    /\ status = Connected(1)
    /\ id = 1

\* C15. In every reachable state in which the status is not Connected, the
\* sent list and every receive queue are empty.
EmptyUnlessConnected ==
    status.tag # "Connected" =>
       /\ sent_messages = <<>>
       /\ \A i \in 1..Len(received_messages) : received_messages[i] = <<>>

\* An insert_received attempted while Connecting, after a session that
\* ended with messages buffered.
EmptyUnlessConnectedWitness ==
    /\ discarded
    /\ status.tag = "Connecting"
    /\ last.op = "insert_received"
    /\ Len(received_messages) > 0

\* C16. A drain_sent yields every pending sent message and leaves none
\* pending; leaving Connected drops every pending sent message and yields
\* none; an accepted send adds its message behind the pending ones; every
\* other call leaves the pending sent messages as they are. Hence a sent
\* message is yielded by the first drain_sent after it and by no other,
\* unless the status leaves Connected first, and then it is never yielded.
SentYieldedOnce ==
    [][/\ last'.op = "drain_sent" =>
             (last'.ret = sent_messages /\ sent_messages' = <<>>)
       /\ (last'.op = "set_status" /\ status.tag = "Connected"
             /\ status'.tag # "Connected") =>
             (sent_messages' = <<>> /\ last'.ret = <<>>)
       /\ (last'.op = "send" /\ status.tag = "Connected") =>
             /\ Len(sent_messages') = Len(sent_messages) + 1
             /\ SubSeq(sent_messages', 1, Len(sent_messages)) = sent_messages
       /\ (last'.op \notin {"drain_sent", "send"}
             /\ ~(status.tag = "Connected" /\ status'.tag # "Connected")) =>
             UNCHANGED sent_messages]_vars

\* A drain_sent yields two messages in a session that follows one which
\* ended with messages buffered.
SentYieldedOnceWitness ==
    /\ discarded
    /\ last.op = "drain_sent" /\ last.from = "Connected"
    /\ Len(last.ret) = 2

\* C17. The number of receive queues is changed by no call other than
\* setup_server_channels: after any other call it is what it was before.
QueueCountOnlyBySetup ==
    last.op # "setup_server_channels" =>
       Len(received_messages) = last.count

\* Three queues that held messages are still three queues after the status
\* has left Connected.
QueueCountOnlyBySetupWitness ==
    /\ last.op = "set_status" /\ last.from = "Connected"
    /\ status.tag = "Disconnected"
    /\ last.queued > 0
    /\ last.count = 3 /\ Len(received_messages) = 3

\* C18. A set_status call that does not take the status from Connected to a
\* non-connected status leaves the sent list and every receive queue as they
\* were.
SetStatusClearsOnlyOnLeave ==
    [][(last'.op = "set_status"
          /\ ~(status.tag = "Connected" /\ status'.tag # "Connected")) =>
         UNCHANGED <<received_messages, sent_messages>>]_vars

\* Connected -> Connected with another client id, with messages buffered in
\* both directions.
SetStatusClearsOnlyOnLeaveWitness ==
    /\ last.op = "set_status" /\ last.from = "Connected"
    /\ status.tag = "Connected" /\ last.from_id # id
    /\ sent_messages # <<>>
    /\ SumLen(received_messages) > 0

\* C19. send and drain_sent leave every receive queue and the status
\* unchanged; insert_received and receive leave the sent list, the status,
\* the number of queues and every queue but the one they address unchanged.
DirectionsIndependent ==
    [][/\ last'.op \in {"send", "drain_sent"} =>
             UNCHANGED <<received_messages, status>>
       /\ last'.op \in {"insert_received", "receive"} =>
             /\ UNCHANGED <<sent_messages, status>>
             /\ Len(received_messages') = Len(received_messages)
             /\ \A i \in 1..Len(received_messages) :
                  i # last'.ch + 1 =>
                     received_messages'[i] = received_messages[i]]_vars

\* A drain_sent has yielded a message while a received message stays queued.
DirectionsIndependentWitness ==
    /\ last.op = "drain_sent" /\ last.ret # <<>>
    /\ SumLen(received_messages) > 0
====
